---- MODULE Spec2Model ----
(***************************************************************************)
(* A model of src/src/Timer.ts: the Timer class (a pausable setTimeout /   *)
(* setInterval wrapper), its three module-level collections TIMERS,        *)
(* UUID_MAP and PROMISE_RESOLVE_FUNCTION_MAP, and the host runtime's       *)
(* native timer facility the class arms and disarms.                       *)
(*                                                                         *)
(* Time is discrete.  A native timer armed with duration d is due after d  *)
(* Tick steps; a due timer fires before time advances any further (the     *)
(* single-threaded event loop with ideal timing).  Every method call is    *)
(* one atomic step: the methods are synchronous and contain no await.      *)
(* A promise counts as resolved in the step that calls its resolve         *)
(* function.                                                               *)
(***************************************************************************)
EXTENDS Integers, Sequences, FiniteSets, TLC

\* ------------------------------------------------------------------ bounds
\* How many Timer objects are constructed.
MaxTimers == 2
\* How many times run() is called on one Timer.
MaxRuns == 2
\* Durations are 1..MaxDuration ticks.
MaxDuration == 2
\* The stopwatch of a repeating Timer saturates here, and its callback
\* counter stops counting then.
MaxElapsed == 6

Timer == 1..MaxTimers
Durations == 1..MaxDuration

\* UUID_MAP.get(timer) / PROMISE_RESOLVE_FUNCTION_MAP.get(timer) when the map
\* has no entry for the timer (undefined, which the code tests with "!= null").
NoEntry == 0

Min(a, b) == IF a < b THEN a ELSE b

\* ------------------------------------------------------------------- state
VARIABLES
    constructed,    \* how many Timers "new Timer(...)" has made; they are 1..constructed
    repeat,         \* Timer.repeat, fixed by the constructor
    duration,       \* Timer.duration, fixed by the constructor
    isRunning,      \* Timer.isRunning
    TIMERS,         \* the Set TIMERS, in insertion order (the order forEach visits)
    UUID_MAP,       \* timer -> the handle setTimeout/setInterval returned, or NoEntry
    PROMISE_RESOLVE_FUNCTION_MAP,
                    \* timer -> the index in promises[timer] of the promise whose
                    \* resolve function is stored, or NoEntry
    promises,       \* timer -> the promises its run() calls returned, in call order
    native,         \* timer -> the runtime's armed native timers that the timer started
    calls,          \* timer -> callback invocations since its last run(), counted
                    \* until the timer's stopwatch saturates
    elapsed,        \* repeating timer -> ticks since its last run() while isRunning (a
                    \* stopwatch the caller stops when it stops the timer; saturating)
    last            \* the step just taken: operation, the timer it was called on,
                    \* and whether it threw the TypeError

vars == <<constructed, repeat, duration, isRunning, TIMERS, UUID_MAP,
          PROMISE_RESOLVE_FUNCTION_MAP, promises, native, calls, elapsed, last>>

\* The mutable program state as one value, threaded through the methods.
\* threw: the TypeError of stop() is propagating.
State ==
    [isRunning |-> isRunning, TIMERS |-> TIMERS, UUID_MAP |-> UUID_MAP,
     PRFM |-> PROMISE_RESOLVE_FUNCTION_MAP, promises |-> promises,
     native |-> native, calls |-> calls, elapsed |-> elapsed, threw |-> FALSE]

\* A Set without one element, keeping the insertion order of the rest.
SetDelete(seq, t) == SelectSeq(seq, LAMBDA x : x # t)

InSet(seq, t) == \E i \in 1..Len(seq) : seq[i] = t

\* -------------------------------------------------- the native timer facility
\* setTimeout / setInterval: arm a new native timer and return its handle h.
Arm(s, t, h, interval) ==
    [s EXCEPT !.native[t] = @ \cup
        {[id |-> h, remaining |-> duration[t], interval |-> interval]}]

\* Mutant: clearTimeout / clearInterval disarm every native timer with handle
\* h, whichever Timer started it.
Disarm_AnyTimer(s, t, h) ==
    [s EXCEPT !.native = [u \in Timer |-> {r \in s.native[u] : r.id # h}]]

\* clearTimeout / clearInterval: disarm the native timer with handle h, if armed.
Disarm(s, t, h) ==
    [s EXCEPT !.native[t] = {r \in @ : r.id # h}]

\* --------------------------------------------------------- the Timer methods
hasTimer(s, t) == s.UUID_MAP[t] # NoEntry

callPromiseResolveFunction(s, t) ==
    IF s.PRFM[t] # NoEntry
    THEN [s EXCEPT !.promises[t][s.PRFM[t]].resolved = TRUE,
                   !.PRFM[t] = NoEntry]
    ELSE s

\* The handle of the native timer that the run() now executing arms: the
\* runtime hands out a fresh handle per call, here the number of the run().
NewHandle(s, t) == Len(s.promises[t]) + 1

\* Mutant: startInterval() arms a one-shot timeout instead of an interval.
startInterval_AsTimeout(s, t) ==
    [Arm(s, t, NewHandle(s, t), FALSE) EXCEPT !.UUID_MAP[t] = NewHandle(s, t)]

startInterval(s, t) ==
    [Arm(s, t, NewHandle(s, t), TRUE) EXCEPT !.UUID_MAP[t] = NewHandle(s, t)]

startTimeout(s, t) ==
    [Arm(s, t, NewHandle(s, t), FALSE) EXCEPT !.UUID_MAP[t] = NewHandle(s, t)]

\* Mutant: stopInterval() forgets to call callPromiseResolveFunction().
stopInterval_NotResolving(s, t) ==
    IF ~hasTimer(s, t)
    THEN [s EXCEPT !.threw = TRUE]
    ELSE [Disarm(s, t, s.UUID_MAP[t]) EXCEPT !.UUID_MAP[t] = NoEntry]

stopInterval(s, t) ==
    IF ~hasTimer(s, t)
    THEN [s EXCEPT !.threw = TRUE]
    ELSE callPromiseResolveFunction(
            [Disarm(s, t, s.UUID_MAP[t]) EXCEPT !.UUID_MAP[t] = NoEntry], t)

\* Mutant: stopTimeout() resolves the stored promise, as stopInterval() does.
stopTimeout_Resolving(s, t) ==
    IF ~hasTimer(s, t)
    THEN [s EXCEPT !.threw = TRUE]
    ELSE callPromiseResolveFunction(
            [Disarm(s, t, s.UUID_MAP[t]) EXCEPT !.UUID_MAP[t] = NoEntry], t)

\* Mutant: stopTimeout() deletes the handle without calling clearTimeout().
stopTimeout_NotDisarming(s, t) ==
    IF ~hasTimer(s, t)
    THEN [s EXCEPT !.threw = TRUE]
    ELSE [s EXCEPT !.UUID_MAP[t] = NoEntry]

stopTimeout(s, t) ==
    IF ~hasTimer(s, t)
    THEN [s EXCEPT !.threw = TRUE]
    ELSE [Disarm(s, t, s.UUID_MAP[t]) EXCEPT !.UUID_MAP[t] = NoEntry]

\* Mutant: stop() forgets "this.isRunning = false".
stop_KeepsRunning(s, t) ==
    IF ~hasTimer(s, t)
    THEN [s EXCEPT !.threw = TRUE]
    ELSE IF repeat[t] THEN stopInterval(s, t) ELSE stopTimeout(s, t)

stop(s, t) ==
    IF ~hasTimer(s, t)
    THEN [s EXCEPT !.threw = TRUE]
    ELSE LET s1 == [s EXCEPT !.isRunning[t] = FALSE]
         IN  IF repeat[t] THEN stopInterval(s1, t) ELSE stopTimeout(s1, t)

\* Mutant: the promise executor stores the new resolve function even when one
\* is stored already.
runExecutor_Replacing(s, t, hadTimer) ==
    LET s1 == IF repeat[t] THEN startInterval(s, t) ELSE startTimeout(s, t)
        n  == Len(s.promises[t]) + 1
    IN  [s1 EXCEPT
            !.promises[t] = Append(@, [resolved |-> FALSE, cached |-> s1.PRFM[t],
                                       hadTimer |-> hadTimer]),
            !.PRFM[t] = n]

\* The promise executor of run(): arm the native timer, then either store the
\* new promise's resolve function or, when one is stored already, resolve the
\* new promise at once.  cached and hadTimer record what the call found: the
\* stored resolve function at line 126 and hasTimer at line 116.
runExecutor(s, t, hadTimer) ==
    LET s1 == IF repeat[t] THEN startInterval(s, t) ELSE startTimeout(s, t)
        n  == Len(s.promises[t]) + 1
    IN  IF s1.PRFM[t] = NoEntry
        THEN [s1 EXCEPT
                !.promises[t] = Append(@, [resolved |-> FALSE, cached |-> NoEntry,
                                           hadTimer |-> hadTimer]),
                !.PRFM[t] = n]
        ELSE [s1 EXCEPT
                !.promises[t] = Append(@, [resolved |-> TRUE, cached |-> s1.PRFM[t],
                                           hadTimer |-> hadTimer])]

\* Mutant: run() adds the Timer to TIMERS again, as the constructor does.
run_ReRegistering(s, t) ==
    LET s1 == IF hasTimer(s, t) THEN stop(s, t) ELSE s
        s2 == [s1 EXCEPT !.isRunning[t] = TRUE,
                         !.calls[t] = 0, !.elapsed[t] = 0,
                         !.TIMERS = IF InSet(@, t) THEN @ ELSE Append(@, t)]
    IN  runExecutor(s2, t, hasTimer(s, t))

run(s, t) ==
    LET s1 == IF hasTimer(s, t) THEN stop(s, t) ELSE s
        s2 == [s1 EXCEPT !.isRunning[t] = TRUE,
                         !.calls[t] = 0, !.elapsed[t] = 0]
    IN  runExecutor(s2, t, hasTimer(s, t))

\* Mutant: stopTimer() only clears the running flag and the handle, and does
\* not disarm the native timer.
stopTimer_FlagOnly(s, t) ==
    IF s.isRunning[t]
    THEN [s EXCEPT !.isRunning[t] = FALSE, !.UUID_MAP[t] = NoEntry]
    ELSE s

stopTimer(s, t) == IF s.isRunning[t] THEN stop(s, t) ELSE s

\* Mutant: runTimer() runs the timer whether or not it is running.
runTimer_Unguarded(s, t) == run(s, t)

runTimer(s, t) == IF ~s.isRunning[t] THEN run(s, t) ELSE s

\* Mutant: clearTimer() forgets TIMERS.delete(timer).
clearTimer_KeepsRegistered(s, t) ==
    LET s1 == stopTimer(s, t)
    IN  IF s1.threw
        THEN s1
        ELSE [s1 EXCEPT !.UUID_MAP[t] = NoEntry]

\* Mutant: clearTimer() also deletes the Timer's entry of
\* PROMISE_RESOLVE_FUNCTION_MAP, as it deletes the one of UUID_MAP.
clearTimer_DroppingResolver(s, t) ==
    LET s1 == stopTimer(s, t)
    IN  IF s1.threw
        THEN s1
        ELSE [s1 EXCEPT !.TIMERS = SetDelete(@, t), !.UUID_MAP[t] = NoEntry,
                        !.PRFM[t] = NoEntry]

clearTimer(s, t) ==
    LET s1 == stopTimer(s, t)
    IN  IF s1.threw
        THEN s1
        ELSE [s1 EXCEPT !.TIMERS = SetDelete(@, t), !.UUID_MAP[t] = NoEntry]

clear(s, t) == clearTimer(s, t)

\* TIMERS.forEach(f) over the elements order lists; an exception ends it.
RECURSIVE forEachStop(_, _)
forEachStop(s, order) ==
    IF order = <<>> \/ s.threw THEN s
    ELSE forEachStop(stopTimer(s, Head(order)), Tail(order))

RECURSIVE forEachRun(_, _)
forEachRun(s, order) ==
    IF order = <<>> \/ s.threw THEN s
    ELSE forEachRun(runTimer(s, Head(order)), Tail(order))

\* Mutant: the iteration skips the element that follows a deleted one, as an
\* index-based loop over a collection that shrinks under it does.
RECURSIVE forEachClear_Skipping(_, _)
forEachClear_Skipping(s, order) ==
    IF order = <<>> \/ s.threw THEN s
    ELSE forEachClear_Skipping(clearTimer(s, Head(order)),
                               IF Len(order) >= 2 THEN Tail(Tail(order)) ELSE <<>>)

RECURSIVE forEachClear(_, _)
forEachClear(s, order) ==
    IF order = <<>> \/ s.threw THEN s
    ELSE forEachClear(clearTimer(s, Head(order)), Tail(order))

\* The orders in which a forEach might visit the elements of the Set seq.
IterationOrders(seq) ==
    {o \in [1..Len(seq) -> {seq[i] : i \in 1..Len(seq)}] :
        \A i, j \in 1..Len(seq) : o[i] = o[j] => i = j}

stopTimers(s) == forEachStop(s, s.TIMERS)

runTimers(s) == forEachRun(s, s.TIMERS)

clearTimers(s) == forEachClear(s, s.TIMERS)

\* The callback the runtime invokes when the native timer r of timer t is due:
\* this.callback(), and for a timeout this.callPromiseResolveFunction().
\* An interval is re-armed by the runtime, a timeout is spent.
timerCallback(s, t, r) ==
    LET s1 == [s EXCEPT
                !.native[t] = IF r.interval
                              THEN (@ \ {r}) \cup {[r EXCEPT !.remaining = duration[t]]}
                              ELSE @ \ {r},
                !.calls[t] = IF repeat[t] /\ s.elapsed[t] = MaxElapsed
                             THEN @ ELSE @ + 1]
    IN  IF r.interval THEN s1 ELSE callPromiseResolveFunction(s1, t)

\* ------------------------------------------------------------------ actions
Install(s, op, t) ==
    /\ isRunning' = s.isRunning
    /\ TIMERS' = s.TIMERS
    /\ UUID_MAP' = s.UUID_MAP
    /\ PROMISE_RESOLVE_FUNCTION_MAP' = s.PRFM
    /\ promises' = s.promises
    /\ native' = s.native
    /\ calls' = s.calls
    /\ elapsed' = s.elapsed
    /\ last' = [op |-> op, timer |-> t, threw |-> s.threw]

Exists(t) == t \in 1..constructed

\* new Timer(callback, d, r)
Construct(r, d) ==
    /\ constructed < MaxTimers
    /\ constructed' = constructed + 1
    /\ repeat' = [repeat EXCEPT ![constructed + 1] = r]
    /\ duration' = [duration EXCEPT ![constructed + 1] = d]
    /\ Install([State EXCEPT !.TIMERS = Append(@, constructed + 1)],
               "construct", constructed + 1)

\* timer.run()
Run(t) ==
    /\ Exists(t)
    /\ Len(promises[t]) < MaxRuns
    /\ Install(run(State, t), "run", t)
    /\ UNCHANGED <<constructed, repeat, duration>>

\* timer.stop()
Stop(t) ==
    /\ Exists(t)
    /\ Install(stop(State, t), "stop", t)
    /\ UNCHANGED <<constructed, repeat, duration>>

\* timer.clear()
Clear(t) ==
    /\ Exists(t)
    /\ Install(clear(State, t), "clear", t)
    /\ UNCHANGED <<constructed, repeat, duration>>

\* Timer.stopTimers()
StopTimers ==
    /\ Install(stopTimers(State), "stopTimers", 0)
    /\ UNCHANGED <<constructed, repeat, duration>>

\* Timer.runTimers()
RunTimers ==
    /\ \A t \in Timer : (InSet(TIMERS, t) /\ ~isRunning[t]) => Len(promises[t]) < MaxRuns
    /\ Install(runTimers(State), "runTimers", 0)
    /\ UNCHANGED <<constructed, repeat, duration>>

\* Timer.clearTimers()
ClearTimers ==
    /\ Install(clearTimers(State), "clearTimers", 0)
    /\ UNCHANGED <<constructed, repeat, duration>>

\* One unit of time passes: no armed native timer is due.
Tick ==
    /\ \A t \in Timer : \A r \in native[t] : r.remaining > 0
    /\ native' = [t \in Timer |->
                    {[r EXCEPT !.remaining = @ - 1] : r \in native[t]}]
    /\ elapsed' = [t \in Timer |->
                    IF repeat[t] /\ isRunning[t] THEN Min(elapsed[t] + 1, MaxElapsed)
                    ELSE elapsed[t]]
    /\ last' = [op |-> "tick", timer |-> 0, threw |-> FALSE]
    /\ UNCHANGED <<constructed, repeat, duration, isRunning, TIMERS, UUID_MAP,
                   PROMISE_RESOLVE_FUNCTION_MAP, promises, calls>>

\* The runtime fires a due native timer of timer t.
Fire(t) ==
    /\ \E r \in native[t] :
        /\ r.remaining = 0
        /\ Install(timerCallback(State, t, r), "fire", t)
    /\ UNCHANGED <<constructed, repeat, duration>>

Init ==
    /\ constructed = 0
    /\ repeat = [t \in Timer |-> FALSE]
    /\ duration = [t \in Timer |-> 1]
    /\ isRunning = [t \in Timer |-> FALSE]
    /\ TIMERS = <<>>
    /\ UUID_MAP = [t \in Timer |-> NoEntry]
    /\ PROMISE_RESOLVE_FUNCTION_MAP = [t \in Timer |-> NoEntry]
    /\ promises = [t \in Timer |-> <<>>]
    /\ native = [t \in Timer |-> {}]
    /\ calls = [t \in Timer |-> 0]
    /\ elapsed = [t \in Timer |-> 0]
    /\ last = [op |-> "init", timer |-> 0, threw |-> FALSE]

DoConstruct == \E r \in BOOLEAN, d \in Durations : Construct(r, d)
DoRun == \E t \in Timer : Run(t)
DoStop == \E t \in Timer : Stop(t)
DoClear == \E t \in Timer : Clear(t)
DoFire == \E t \in Timer : Fire(t)

Next ==
    \/ DoConstruct
    \/ DoRun
    \/ DoStop
    \/ DoClear
    \/ StopTimers
    \/ RunTimers
    \/ ClearTimers
    \/ Tick
    \/ DoFire

Spec == Init /\ [][Next]_vars

\* The program with a single Timer object: what one Timer does on its own.
DoConstructFirst == constructed = 0 /\ DoConstruct

NextOne ==
    \/ DoConstructFirst
    \/ DoRun
    \/ DoStop
    \/ DoClear
    \/ StopTimers
    \/ RunTimers
    \/ ClearTimers
    \/ Tick
    \/ DoFire

SpecOne == Init /\ [][NextOne]_vars

\* The program when every Timer is constructed with the default repeat = false.
DoConstructTimeout == \E d \in Durations : Construct(FALSE, d)

NextTimeouts ==
    \/ DoConstructTimeout
    \/ DoRun
    \/ DoStop
    \/ DoClear
    \/ StopTimers
    \/ RunTimers
    \/ ClearTimers
    \/ Tick
    \/ DoFire

SpecTimeouts == Init /\ [][NextTimeouts]_vars

\* The runtime's scheduling: time passes, and a due native timer fires.
FairSpec ==
    /\ Spec
    /\ WF_vars(Tick)
    /\ \A t \in Timer : WF_vars(Fire(t))

FairSpecOne ==
    /\ SpecOne
    /\ WF_vars(Tick)
    /\ \A t \in Timer : WF_vars(Fire(t))

FairSpecTimeouts ==
    /\ SpecTimeouts
    /\ WF_vars(Tick)
    /\ \A t \in Timer : WF_vars(Fire(t))

\* ------------------------------------------------------- reading the state
\* The runtime holds an armed native timer that timer t started.
Armed(t) == native[t] # {}

Registered(t) == InSet(TIMERS, t)

\* The step just taken was operation op called on timer t.
Called(op, t) == last.op = op /\ last.timer = t

\* Timer t's promise i is resolved.
Resolved(t, i) == promises[t][i].resolved

\* Promise j of timer t was returned by a run() that resumed a stopped timer:
\* the timer held no handle and a resolve function was still stored.
Resumes(t, j) ==
    /\ promises[t][j].cached # NoEntry
    /\ ~promises[t][j].hadTimer

\* ------------------------------------------------------------------- claims

\* C1: for a non-repeating Timer, the promise of a run() that resumes a timer
\* stopped before its timeout fired resolves at the same event as the promise
\* of the first run(): in no state is one of the two resolved and the other not.
C1_PromiseIdentity ==
    \A t \in Timer : ~repeat[t] =>
        \A j \in 1..Len(promises[t]) :
            Resumes(t, j) =>
                (Resolved(t, j) <=> Resolved(t, promises[t][j].cached))

\* C2: for a non-repeating Timer, a promise is resolved by no step other than
\* the firing of the timer's timeout (so not by stop() or Timer.stopTimers(),
\* and not while the timer is stopped); an unresolved promise keeps its resolve
\* function stored; the firing resolves the stored one; and an armed timer
\* with a stored resolve function leads to that promise resolved, unless the
\* timer is disarmed or run() again first.
C2_OnlyFiringResolves ==
    \A t \in Timer : ~repeat[t] =>
        \A i \in 1..Len(promises[t]) :
            /\ ~Resolved(t, i) => PROMISE_RESOLVE_FUNCTION_MAP[t] = i
            /\ (~Resolved(t, i) /\ Resolved(t, i)') => Called("fire", t)'
            /\ (~Resolved(t, i) /\ Called("fire", t)') => Resolved(t, i)'

C2_ArmedWithPending(t, i, n) ==
    /\ ~repeat[t]
    /\ Armed(t)
    /\ PROMISE_RESOLVE_FUNCTION_MAP[t] = i
    /\ Len(promises[t]) = n

C2_ResolvedOrInterrupted(t, i, n) ==
    \/ ~Armed(t)
    \/ Len(promises[t]) > n
    \/ (i <= Len(promises[t]) /\ Resolved(t, i))

\* C2 (the whole claim): the step property above in every step, and the
\* armed timer's stored promise is eventually resolved unless the timer is
\* disarmed or run() again first.
C2_OriginalPromisePreserved ==
    /\ [][C2_OnlyFiringResolves]_vars
    /\ \A t \in Timer : \A i \in 1..MaxRuns : \A n \in 1..MaxRuns :
        C2_ArmedWithPending(t, i, n) ~> C2_ResolvedOrInterrupted(t, i, n)

\* C2 witness: the first promise of a one-shot timer has just been resolved by
\* the firing, after the timer was stopped before firing and resumed.
C2_Witness ==
    \E t \in Timer :
        /\ ~repeat[t]
        /\ Called("fire", t)
        /\ Len(promises[t]) = 2
        /\ Resumes(t, 2)
        /\ promises[t][2].cached = 1
        /\ Resolved(t, 1)

\* C3: for a non-repeating Timer, whenever the promise of its latest run() is
\* resolved the callback has been invoked exactly once since that run().
C3_ExactlyOnce ==
    \A t \in Timer : ~repeat[t] =>
        \A j \in 1..Len(promises[t]) :
            (j = Len(promises[t]) /\ Resolved(t, j)) => calls[t] = 1

\* C4: the parts of the claim about a repeating Timer that do not depend on
\* which operation stopped it.  A firing changes no promise and leaves the
\* stored resolve function alone; a step that takes the timer's handle away
\* or replaces it (the timer is stopped) resolves every promise and leaves
\* no older resolve function stored; a run() stores the resolve function of
\* the fresh, unresolved promise it returns.
C4_Repeating(t) ==
    /\ Called("fire", t)' =>
        /\ promises'[t] = promises[t]
        /\ PROMISE_RESOLVE_FUNCTION_MAP'[t] = PROMISE_RESOLVE_FUNCTION_MAP[t]
    /\ (UUID_MAP[t] # NoEntry /\ UUID_MAP'[t] # UUID_MAP[t]) =>
        /\ \A i \in 1..Len(promises[t]) : Resolved(t, i)'
        /\ PROMISE_RESOLVE_FUNCTION_MAP'[t] \notin 1..Len(promises[t])
    /\ Len(promises'[t]) > Len(promises[t]) =>
        /\ ~promises'[t][Len(promises'[t])].resolved
        /\ PROMISE_RESOLVE_FUNCTION_MAP'[t] = Len(promises'[t])

\* The operations that resolve a promise of repeating timer t are among ops.
C4_ResolvedOnlyBy(t, ops) ==
    \A i \in 1..Len(promises[t]) :
        (~Resolved(t, i) /\ Resolved(t, i)') => last'.op \in ops

StopOperations == {"stop", "stopTimers", "clear", "clearTimers"}

\* C4 as claimed: for a repeating Timer a firing only invokes the callback,
\* the promise is resolved exactly when stop(), Timer.stopTimers(), clear()
\* or Timer.clearTimers() stops the timer, and the next run() stores a fresh
\* completion.
C4_ResolvedOnlyByStopOperations ==
    [][\A t \in Timer : repeat[t] =>
        C4_Repeating(t) /\ C4_ResolvedOnlyBy(t, StopOperations)]_vars

\* C4 as amended: the same, where the timer is stopped by stop(),
\* Timer.stopTimers(), clear(), Timer.clearTimers(), or by a run() called
\* while it is armed (run() calls stop() first).
C4_ResolvedOnlyWhenStopped ==
    [][\A t \in Timer : repeat[t] =>
        /\ C4_Repeating(t)
        /\ C4_ResolvedOnlyBy(t, StopOperations \cup {"run"})
        /\ \A i \in 1..Len(promises[t]) :
            (~Resolved(t, i) /\ Resolved(t, i)' /\ last'.op = "run") =>
                (Called("run", t)' /\ UUID_MAP[t] # NoEntry)]_vars

\* C4 witness: a repeating timer that fired without resolving its promise has
\* just been stopped by stop(), which resolved it.
C4_Witness ==
    \E t \in Timer :
        /\ repeat[t]
        /\ Called("stop", t)
        /\ ~last.threw
        /\ calls[t] >= 1
        /\ Len(promises[t]) = 1
        /\ Resolved(t, 1)
        /\ PROMISE_RESOLVE_FUNCTION_MAP[t] = NoEntry

\* C5: a repeating Timer with duration d whose stopwatch reads t ticks since
\* its last run(), t not a multiple of d, has had its callback invoked exactly
\* floor(t/d) times since that run(). The stopwatch is stopped by stop(), so
\* in the states after a stop() this is the count at the moment of the stop,
\* and it stays the count until the next run().
C5_FloorCount ==
    \A t \in Timer :
        (/\ repeat[t]
         /\ promises[t] # <<>>
         /\ elapsed[t] < MaxElapsed
         /\ elapsed[t] % duration[t] # 0)
        => calls[t] = elapsed[t] \div duration[t]

\* C5 witness: a repeating timer with duration 2 that was stopped 5 ticks
\* after its run(), and time has passed since; the callback was invoked twice.
C5_Witness ==
    \E t \in Timer :
        /\ repeat[t]
        /\ duration[t] = 2
        /\ elapsed[t] = 5
        /\ calls[t] = 2
        /\ ~isRunning[t]
        /\ ~Armed(t)
        /\ last.op = "tick"

\* C6: stop() throws the TypeError exactly when the timer has no armed native
\* timer, and a stop() that throws changes nothing of the program's state.
C6_StopThrowsIffNotArmed ==
    [][\A t \in Timer : Called("stop", t)' =>
        /\ last'.threw <=> ~Armed(t)
        /\ last'.threw =>
            UNCHANGED <<isRunning, UUID_MAP, PROMISE_RESOLVE_FUNCTION_MAP,
                        promises, TIMERS, native>>]_vars

\* The step leaves everything the program and the runtime hold about timer t
\* as it was.
Untouched(t) ==
    /\ isRunning'[t] = isRunning[t]
    /\ UUID_MAP'[t] = UUID_MAP[t]
    /\ PROMISE_RESOLVE_FUNCTION_MAP'[t] = PROMISE_RESOLVE_FUNCTION_MAP[t]
    /\ promises'[t] = promises[t]
    /\ native'[t] = native[t]
    /\ calls'[t] = calls[t]

BatchOperations == {"runTimers", "stopTimers", "clearTimers"}

\* C7: Timer.stopTimers() never throws, and in every state from its return to
\* the next step every registered timer is not running, holds no handle and
\* has no armed native timer; and a timer with no armed native timer stays so,
\* and its callback is not invoked, in every step that is not a run() on it
\* or a Timer.runTimers().
C7_AfterStopTimers ==
    last.op = "stopTimers" =>
        /\ ~last.threw
        /\ \A t \in Timer : Registered(t) =>
            (~isRunning[t] /\ ~Armed(t) /\ UUID_MAP[t] = NoEntry)

C7_DisarmedStaysQuiet ==
    \A t \in Timer :
        (~Armed(t) /\ ~Called("run", t)' /\ last'.op # "runTimers") =>
            (~Armed(t)' /\ ~Called("fire", t)' /\ calls'[t] = calls[t])

\* C7 (the whole claim): the state after Timer.stopTimers(), always, and the
\* quiet steps of a disarmed timer, in every step.
C7_StopTimersDisarmsAll ==
    /\ []C7_AfterStopTimers
    /\ [][C7_DisarmedStaysQuiet]_vars

\* C7 witness: Timer.stopTimers() has just returned with two registered
\* timers that had been run, a one-shot stopped before firing (its resolve
\* function is still stored) and a repeating one that had fired.
C7_Witness ==
    /\ last.op = "stopTimers"
    /\ \E t, u \in Timer :
        /\ Registered(t) /\ Registered(u)
        /\ ~repeat[t] /\ PROMISE_RESOLVE_FUNCTION_MAP[t] # NoEntry /\ ~isRunning[t]
        /\ repeat[u] /\ calls[u] >= 1 /\ ~isRunning[u] /\ Resolved(u, 1)

\* C8: Timer.runTimers() does not throw, keeps the registry, runs every
\* registered timer that is not running (it is then running, with exactly one
\* native timer armed for its full duration under a new handle, and one more
\* promise) and leaves every other timer untouched; Timer.runTimers() right
\* after Timer.stopTimers() leaves every registered timer armed; and an armed
\* non-repeating timer whose callback has not been invoked since its run()
\* leads to the callback invoked, unless it is disarmed or run() again first.
C8_RunTimersStep ==
    last'.op = "runTimers" =>
        /\ ~last'.threw
        /\ TIMERS' = TIMERS
        /\ \A t \in Timer :
            IF Registered(t) /\ ~isRunning[t]
            THEN /\ isRunning'[t]
                 /\ Len(promises'[t]) = Len(promises[t]) + 1
                 /\ UUID_MAP'[t] = Len(promises'[t])
                 /\ native'[t] = {[id |-> UUID_MAP'[t], remaining |-> duration[t],
                                   interval |-> repeat[t]]}
            ELSE Untouched(t) /\ elapsed'[t] = elapsed[t]
        /\ last.op = "stopTimers" => \A t \in Timer : Registered(t) => Armed(t)'

C8_ArmedNotFired(t, n) ==
    /\ ~repeat[t]
    /\ Armed(t)
    /\ calls[t] = 0
    /\ Len(promises[t]) = n

C8_FiredOrInterrupted(t, n) ==
    \/ calls[t] >= 1
    \/ ~Armed(t)
    \/ Len(promises[t]) > n

C9_AfterClear ==
    \A t \in Timer : Called("clear", t) =>
        /\ ~last.threw
        /\ ~isRunning[t]
        /\ ~Armed(t)
        /\ UUID_MAP[t] = NoEntry
        /\ ~Registered(t)

C9_BatchSkipsCleared ==
    \A t \in Timer :
        (Exists(t) /\ ~Registered(t) /\ last'.op \in BatchOperations) =>
            (Untouched(t) /\ ~Registered(t)')

\* C9 (the whole claim): the state after clear(), always, and the batch
\* operations leaving a cleared timer alone, in every step.
C9_ClearRemoves ==
    /\ []C9_AfterClear
    /\ [][C9_BatchSkipsCleared]_vars

\* C9 witness: Timer.runTimers() has just run a registered timer while a
\* timer that had been run and then cleared stays disarmed.
C9_Witness ==
    /\ last.op = "runTimers"
    /\ \E t, u \in Timer :
        /\ Exists(t) /\ ~Registered(t) /\ promises[t] # <<>>
        /\ ~isRunning[t] /\ ~Armed(t)
        /\ Registered(u) /\ Armed(u)

\* C10: Timer.clearTimers() does not throw, empties the registry and leaves
\* every timer that was registered not running, without a handle and with no
\* armed native timer; and a timer out of the registry with no armed native
\* timer stays so, and its callback is not invoked, in every step that is not
\* a run() on it.
C10_ClearTimersStep ==
    last'.op = "clearTimers" =>
        /\ ~last'.threw
        /\ TIMERS' = <<>>
        /\ \A t \in Timer : Registered(t) =>
            (~isRunning'[t] /\ ~Armed(t)' /\ UUID_MAP'[t] = NoEntry)

C10_ClearedStaysQuiet ==
    \A t \in Timer :
        (Exists(t) /\ ~Registered(t) /\ ~Armed(t) /\ ~Called("run", t)') =>
            (~Armed(t)' /\ ~Called("fire", t)' /\ ~Registered(t)')

\* C10 (the whole claim): the Timer.clearTimers() step and the quiet steps of
\* a cleared, disarmed timer, in every step.
C10_ClearTimersEmpties ==
    [][C10_ClearTimersStep /\ C10_ClearedStaysQuiet]_vars

\* C10 witness: Timer.clearTimers() has just returned, two timers had been
\* constructed and run, and time has not passed since the repeating one's
\* run() (it was armed when cleared or stopped, and never fired).
C10_Witness ==
    /\ last.op = "clearTimers"
    /\ TIMERS = <<>>
    /\ \E t, u \in Timer :
        /\ t # u
        /\ promises[t] # <<>> /\ promises[u] # <<>>
        /\ repeat[t] /\ Resolved(t, 1) /\ calls[t] = 0
        /\ ~repeat[u] /\ PROMISE_RESOLVE_FUNCTION_MAP[u] # NoEntry

\* The step is a run() on timer t made while its native timer is armed and a
\* resolve function is stored.
C11_RunWhileArmed(t) ==
    /\ Called("run", t)'
    /\ Armed(t)
    /\ PROMISE_RESOLVE_FUNCTION_MAP[t] # NoEntry

\* After the step exactly one native timer is armed for timer t: the one the
\* run() started, with the full duration to go.
C11_OneNativeTimer(t) ==
    /\ Cardinality(native'[t]) = 1
    /\ \A r \in native'[t] : r.id = UUID_MAP'[t] /\ r.remaining = duration[t]
    /\ isRunning'[t]
    /\ ~last'.threw

\* The resolve function stored before the step is still stored after it, and
\* its promise is still unresolved.
C11_PendingKept(t) ==
    /\ PROMISE_RESOLVE_FUNCTION_MAP'[t] = PROMISE_RESOLVE_FUNCTION_MAP[t]
    /\ ~promises'[t][PROMISE_RESOLVE_FUNCTION_MAP[t]].resolved

\* The promise whose resolve function was stored before the step is resolved
\* by it, and the resolve function of the promise the run() returns is stored.
C11_PendingResolvedAndReplaced(t) ==
    /\ promises'[t][PROMISE_RESOLVE_FUNCTION_MAP[t]].resolved
    /\ PROMISE_RESOLVE_FUNCTION_MAP'[t] = Len(promises'[t])
    /\ PROMISE_RESOLVE_FUNCTION_MAP'[t] # PROMISE_RESOLVE_FUNCTION_MAP[t]
    /\ ~promises'[t][Len(promises'[t])].resolved

\* C11 as claimed: a run() on a Timer whose native timer is armed, repeating
\* or not, leaves the pending completion stored and unresolved, and exactly
\* one native timer armed.
C11_RunKeepsPending ==
    [][\A t \in Timer : C11_RunWhileArmed(t) =>
        (C11_PendingKept(t) /\ C11_OneNativeTimer(t))]_vars

\* C11 as amended: a run() on a Timer whose native timer is armed leaves
\* exactly one native timer armed; for a non-repeating Timer the pending
\* completion is still stored and unresolved, for a repeating Timer it is
\* resolved (run() calls stop()) and the new promise's is stored instead.
C11_RunKeepsPendingOfTimeout ==
    [][\A t \in Timer : C11_RunWhileArmed(t) =>
        /\ C11_OneNativeTimer(t)
        /\ IF repeat[t] THEN C11_PendingResolvedAndReplaced(t)
                        ELSE C11_PendingKept(t)]_vars

\* C11 witness: run() has just been called on a one-shot timer of duration 2
\* that was armed with one tick to go; the first promise is pending and stored.
C11_Witness ==
    \E t \in Timer :
        /\ ~repeat[t]
        /\ duration[t] = 2
        /\ Called("run", t)
        /\ Len(promises[t]) = 2
        /\ promises[t][2].hadTimer
        /\ PROMISE_RESOLVE_FUNCTION_MAP[t] = 1
        /\ ~Resolved(t, 1)
        /\ native[t] = {[id |-> 2, remaining |-> 2, interval |-> FALSE]}

\* C12: the isRunning flag of a Timer rises only in a run() on it or a
\* Timer.runTimers(); it falls only in a stop(), Timer.stopTimers(), clear()
\* or Timer.clearTimers(), or when the timeout of a non-repeating Timer fires;
\* and after the timeout of a non-repeating Timer has fired the Timer is not
\* running and holds no handle.
C12_StateMachine ==
    [][\A t \in Timer :
        /\ (~isRunning[t] /\ isRunning'[t]) =>
            (Called("run", t)' \/ last'.op = "runTimers")
        /\ (isRunning[t] /\ ~isRunning'[t]) =>
            \/ last'.op \in StopOperations
            \/ (Called("fire", t)' /\ ~repeat[t])
        /\ (Called("fire", t)' /\ ~repeat[t]) =>
            (~isRunning'[t] /\ UUID_MAP'[t] = NoEntry)]_vars

\* C13: in every state between calls, a Timer has a stored native handle
\* (hasTimer: an entry in UUID_MAP) if and only if its isRunning flag is true.
C13_HandleIffRunning ==
    \A t \in Timer : (UUID_MAP[t] # NoEntry) <=> isRunning[t]

\* C13 witness: a non-repeating timer whose timeout has fired still has its
\* handle and its flag, beside a timer that was run and stopped and has
\* neither, after a batch operation.
C13_Witness ==
    /\ last.op \in BatchOperations
    /\ \E t, u \in Timer :
        /\ ~repeat[t] /\ calls[t] = 1 /\ ~Armed(t)
        /\ UUID_MAP[t] # NoEntry /\ isRunning[t]
        /\ promises[u] # <<>> /\ UUID_MAP[u] = NoEntry /\ ~isRunning[u]

\* A Timer stores at most one pending completion: a promise of the Timer is
\* unresolved exactly when it is the one whose resolve function is stored.
C14_AtMostOnePending ==
    \A t \in Timer :
        /\ PROMISE_RESOLVE_FUNCTION_MAP[t] \in 0..Len(promises[t])
        /\ \A i \in 1..Len(promises[t]) :
            ~Resolved(t, i) <=> PROMISE_RESOLVE_FUNCTION_MAP[t] = i

\* A non-repeating Timer whose callback has been invoked since its last run()
\* has no resolve function stored.
C14_FiredHasNone ==
    \A t \in Timer :
        (~repeat[t] /\ calls[t] >= 1) => PROMISE_RESOLVE_FUNCTION_MAP[t] = NoEntry

\* The step is a run() on timer t made while a resolve function is stored.
C14_RunWhileStored(t) ==
    /\ Called("run", t)'
    /\ PROMISE_RESOLVE_FUNCTION_MAP[t] # NoEntry

\* C14 as claimed: each Timer stores at most one pending completion, a run()
\* made while one is stored never replaces it, and a non-repeating Timer
\* whose callback has fired since the last run() has none stored.
C14_PendingCompletion ==
    /\ [](C14_AtMostOnePending /\ C14_FiredHasNone)
    /\ [][\A t \in Timer : C14_RunWhileStored(t) => C11_PendingKept(t)]_vars

\* C14 as amended: the same, where a run() made while one is stored never
\* replaces it on a non-repeating Timer, and on a repeating Timer (which is
\* then armed) resolves it and stores the new promise's instead.
C14_PendingCompletionOfTimeout ==
    /\ [](C14_AtMostOnePending /\ C14_FiredHasNone)
    /\ [][\A t \in Timer : C14_RunWhileStored(t) =>
            IF repeat[t]
            THEN Armed(t) /\ C11_PendingResolvedAndReplaced(t)
            ELSE C11_PendingKept(t)]_vars

\* C14 witness: the timeout of a non-repeating timer has just fired after a
\* second run() made while the first promise's resolve function was stored
\* and the timer was armed; both promises are resolved and nothing is stored.
C14_Witness ==
    \E t \in Timer :
        /\ ~repeat[t]
        /\ Called("fire", t)
        /\ calls[t] = 1
        /\ Len(promises[t]) = 2
        /\ promises[t][2].cached = 1
        /\ promises[t][2].hadTimer
        /\ Resolved(t, 1)
        /\ PROMISE_RESOLVE_FUNCTION_MAP[t] = NoEntry

\* A run(), stop() or clear() on one Timer leaves every other Timer as it was:
\* its isRunning, handle, stored resolve function, promises, native timers,
\* callback count, stopwatch and registration.
C15_OthersUntouched ==
    \A t \in Timer :
        (last'.op \in {"run", "stop", "clear"} /\ last'.timer = t) =>
            \A u \in Timer \ {t} :
                /\ Untouched(u)
                /\ elapsed'[u] = elapsed[u]
                /\ InSet(TIMERS', u) <=> InSet(TIMERS, u)

\* The state a batch operation leaves is the state its forEach would leave in
\* every other order of visiting the registry.
C15_AnyOrder ==
    \A order \in IterationOrders(TIMERS) :
        /\ last'.op = "stopTimers" =>
            (forEachStop(State, order) = [State' EXCEPT !.threw = last'.threw])
        /\ last'.op = "runTimers" =>
            (forEachRun(State, order) = [State' EXCEPT !.threw = last'.threw])
        /\ last'.op = "clearTimers" =>
            (forEachClear(State, order) = [State' EXCEPT !.threw = last'.threw])

\* C15: run(), stop() and clear() on one Timer leave every other Timer
\* unchanged, and Timer.runTimers(), Timer.stopTimers() and
\* Timer.clearTimers() leave the same state for every iteration order over
\* the registry.
C15_TaskIndependence ==
    [][C15_OthersUntouched /\ C15_AnyOrder]_vars

\* C15 witness: Timer.runTimers() has just run two registered timers, both
\* stopped before (each has its second native timer, armed for its full
\* duration), a repeating one and a non-repeating one.
C15_Witness ==
    /\ last.op = "runTimers"
    /\ Len(TIMERS) = 2
    /\ \E t, u \in Timer :
        /\ repeat[t] /\ ~repeat[u]
        /\ \A v \in {t, u} :
            /\ Registered(v)
            /\ Len(promises[v]) = 2
            /\ native[v] = {[id |-> 2, remaining |-> duration[v],
                             interval |-> repeat[v]]}

\* The registry holds constructed Timers only, each at most once.
C16_RegistryWellFormed ==
    /\ \A i \in 1..Len(TIMERS) : Exists(TIMERS[i])
    /\ \A i, j \in 1..Len(TIMERS) : TIMERS[i] = TIMERS[j] => i = j

\* What each step does to the registry: the constructor adds the new Timer,
\* clear() removes its Timer and no other, Timer.clearTimers() removes all,
\* and every other step (run(), stop(), Timer.runTimers(),
\* Timer.stopTimers(), a firing, a tick) leaves it as it is.
C16_MembershipStep ==
    /\ last'.op = "construct" =>
        (~Registered(last'.timer) /\ TIMERS' = Append(TIMERS, last'.timer))
    /\ last'.op = "clear" => TIMERS' = SetDelete(TIMERS, last'.timer)
    /\ last'.op = "clearTimers" => TIMERS' = <<>>
    /\ last'.op \notin {"construct", "clear", "clearTimers"} => TIMERS' = TIMERS

\* C16: the registry is exactly the set of Timers constructed and not yet
\* cleared: it starts empty, construction adds, clear() and
\* Timer.clearTimers() remove, and no other step, a run() on a cleared Timer
\* included, adds or removes a Timer.
C16_RegistryMembership ==
    /\ [](C16_RegistryWellFormed /\ (constructed = 0 => TIMERS = <<>>))
    /\ [][C16_MembershipStep]_vars

\* C16 witness: run() has just been called on a Timer that had been cleared;
\* it is armed and running, and still out of the registry, which holds the
\* other Timer.
C16_Witness ==
    \E t, u \in Timer :
        /\ Called("run", t)
        /\ Exists(t) /\ ~Registered(t)
        /\ isRunning[t] /\ Armed(t)
        /\ TIMERS = <<u>>

\* C17: a non-repeating Timer whose callback has been invoked since its last
\* run() is not armed again by Timer.stopTimers() or Timer.runTimers(): such
\* a step leaves it with no armed native timer and makes no run() on it.
C17_FiredNotRearmedByBatch ==
    [][\A t \in Timer :
        (/\ ~repeat[t]
         /\ calls[t] >= 1
         /\ ~Armed(t)
         /\ last'.op \in {"stopTimers", "runTimers"})
        => (~Armed(t)' /\ promises'[t] = promises[t] /\ calls'[t] = calls[t])]_vars

\* The step clears timer t: a clear() on it, or a Timer.clearTimers() while it
\* is registered.
C18_Clears(t) ==
    \/ Called("clear", t)'
    \/ (last'.op = "clearTimers" /\ Registered(t))

\* Clearing a running repeating Timer resolves its pending completion and
\* leaves none stored; clearing a non-repeating Timer with a pending
\* completion, armed or stopped before firing, leaves it stored and
\* unresolved, and the Timer disarmed.
C18_ClearStep ==
    \A t \in Timer : C18_Clears(t) =>
        /\ (repeat[t] /\ isRunning[t]) =>
            /\ PROMISE_RESOLVE_FUNCTION_MAP[t] # NoEntry
            /\ \A i \in 1..Len(promises[t]) : Resolved(t, i)'
            /\ PROMISE_RESOLVE_FUNCTION_MAP'[t] = NoEntry
        /\ (~repeat[t] /\ PROMISE_RESOLVE_FUNCTION_MAP[t] # NoEntry) =>
            /\ C11_PendingKept(t)
            /\ ~Armed(t)'

\* A cleared non-repeating Timer is armed by nothing but a run() on it, and
\* its promises are resolved by nothing but a firing of its timeout.
C18_ClearedStaysPending ==
    \A t \in Timer : (Exists(t) /\ ~Registered(t) /\ ~repeat[t]) =>
        /\ (~Armed(t) /\ Armed(t)') => Called("run", t)'
        /\ \A i \in 1..Len(promises[t]) :
            (~Resolved(t, i) /\ Resolved(t, i)') => (Armed(t) /\ Called("fire", t)')

\* C18: clear() / Timer.clearTimers() resolves the pending completion of a
\* running repeating Timer; on a non-repeating Timer with a pending
\* completion it leaves the completion stored and unresolved, and that
\* promise is resolved by no step until run() is called on the cleared
\* Timer again and its timeout fires.
C18_ClearResolvesOnlyRepeating ==
    [][C18_ClearStep /\ C18_ClearedStaysPending]_vars

\* C18 witness: two Timers were run and cleared while armed; the repeating
\* one's promise was resolved by the clearing, the non-repeating one's was
\* not, until run() was called on it again and its timeout has now fired.
C18_Witness ==
    \E t, u \in Timer :
        /\ TIMERS = <<>>
        /\ repeat[u] /\ Len(promises[u]) = 1 /\ Resolved(u, 1) /\ calls[u] = 0
        /\ ~repeat[t] /\ Called("fire", t) /\ Len(promises[t]) = 2
        /\ promises[t][2].cached = 1 /\ ~promises[t][2].hadTimer
        /\ Resolved(t, 1)

====
